---- MODULE Spec2Model ----
(***************************************************************************)
(* Sliding-window rate limiter backed by a Redis sorted set.               *)
(*                                                                         *)
(* A caller (goroutine, process or node) runs RedisStore.AllowN or         *)
(* RedisStore.Status: it reads its clock, draws its random discriminators  *)
(* and sends one EVAL to the store.  The store runs the Lua script as one  *)
(* indivisible step, in the order the EVALs arrive, which need not be the  *)
(* order in which the callers read their clocks.  A caller keeps nothing   *)
(* between its calls, and a call in flight holds only the timestamp and    *)
(* the discriminators it was sent with, so a call is one step, taken when  *)
(* the store runs its script, with a timestamp `now` read at any time up   *)
(* to that moment: concurrent calls are steps in any order, with any such  *)
(* timestamps.                                                             *)
(***************************************************************************)
EXTENDS Integers, Sequences, FiniteSets

\* ------------------------------------------------------------------ bounds
MaxTime == 3            \* the clock runs from 0 to MaxTime milliseconds
MaxCalls == 3           \* calls made in one behaviour
MaxLag == 1             \* milliseconds between reading the time and the script running

\* --------------------------------------------------------------- universes
Stores == {"s1"}                 \* the RedisStore instances the callers use
Keys == {"a", "b"}               \* the keys of the store
SpecKeys == {"a"}                \* the keys the callers of Spec use
Ns == {-1, 0, 1, 2}                \* the n a caller passes to AllowN
RandVals == {0, 1}               \* values rand.Int63() returns
NsPerMs == 1000000               \* time.Duration counts nanoseconds
Limits == {1, 2}                 \* WithLimit
Windows == {2 * NsPerMs}         \* WithWindow
NoTTL == -1                      \* the key has no expiry (Redis TTL -1)

VARIABLES
    clock,      \* wall clock in ms, read by the callers and by the store
    zset,       \* zset[k]: the sorted set stored at key k, {[score, member]}
    ttl,        \* ttl[k]: the time at which the store expires key k, or NoTTL
    config,     \* config[s]: the Config of RedisStore s
    result,     \* the (*Result, error) the last finished call returned
    ncalls,     \* number of calls made so far
    last,       \* the arguments of the last call whose script ran (history)
    admitted,   \* admitted[k][t]: units admitted for k with timestamp t (history)
    tally,      \* tally[k]: the AllowN(k, 1) calls run on k, while no other ran (history)
    orderly,    \* no call so far ran late or merged an entry into another (history)
    call,       \* the last call made: its n, its EVALs and their error (history)
    response    \* the HTTP response the middleware wrote for the last request

vars == <<clock, zset, ttl, config, result, ncalls, last, admitted, tally, orderly,
          call, response>>

\* ---------------------------------------------------------- Go-side values
Config(limit, window) == [Limit |-> limit, Window |-> window]

Result(allowed, remaining, limit, resetAfter) ==
    [Allowed |-> allowed, Remaining |-> remaining, Limit |-> limit,
     ResetAfter |-> resetAfter]

\* (*Result, error): res is <<>> for a nil *Result, err is "" for a nil error
Returned(r) == [res |-> <<r>>, err |-> ""]
Failed(e) == [res |-> <<>>, err |-> e]

\* time.Duration.Milliseconds: integer division, truncating
Milliseconds(d) == d \div NsPerMs

\* ------------------------------------------------------- sorted-set commands
\* member = now .. ':' .. i .. ':' .. ARGV[5 + i]; the three decimal fields are
\* separated by ':', so two members are equal iff all three fields are equal
Member(now, i, r) == <<now, i, r>>

\* A range that leaves out its upper end, and a command that removes nothing.
ZREMRANGEBYSCORE_Below(z, min, max) == {e \in z : ~(min <= e.score /\ e.score < max)}
ZREMRANGEBYSCORE_Nothing(z, min, max) == z

\* ZREMRANGEBYSCORE key min max: both ends inclusive
ZREMRANGEBYSCORE(z, min, max) == {e \in z : ~(min <= e.score /\ e.score <= max)}

ZCARD(z) == Cardinality(z)

\* ZADD key score member: an existing member is kept once, with the new score
ZADD(z, score, member) ==
    {e \in z : e.member # member} \cup {[score |-> score, member |-> member]}

\* for i = 0, n - 1 do ZADD key now member(i) end, having done the first i rounds
RECURSIVE AddFrom(_, _, _, _, _)
AddFrom(z, now, n, rands, i) ==
    IF i >= n THEN z
    ELSE AddFrom(ZADD(z, now, Member(now, i, rands[i + 1])), now, n, rands, i + 1)

\* A loop that stops one round short.
AddEntries_OneShort(z, now, n, rands) == AddFrom(z, now, n - 1, rands, 0)

AddEntries(z, now, n, rands) == AddFrom(z, now, n, rands, 0)

\* ------------------------------------------------------------- Lua scripts
\* A test that leaves n out, one that is strict, and one that admits what is
\* left of the limit.
Admits_WithoutN(current_count, n, limit) == current_count < limit
Admits_Strict(current_count, n, limit) == current_count + n < limit
Admits_WhenEmpty(current_count, n, limit) ==
    current_count + n <= limit \/ current_count = 0

\* if current_count + n <= limit
Admits(current_count, n, limit) == current_count + n <= limit

\* A denial that reports nothing remaining.
Denial_Zero(current_count, limit) == <<0, 0>>

\* return {0, limit - current_count}
Denial(current_count, limit) == <<0, limit - current_count>>

\* An admit script without its PEXPIRE.
slidingWindowScriptN_NoExpire(z, now, window, limit, n, rands) ==
    LET pruned == ZREMRANGEBYSCORE(z, 0, now - window)
        current_count == ZCARD(pruned)
    IN  IF Admits(current_count, n, limit)
        THEN [zset |-> AddEntries(pruned, now, n, rands), expire |-> FALSE,
              pruned |-> pruned, reply |-> <<1, limit - current_count - n>>]
        ELSE [zset |-> pruned, expire |-> FALSE,
              pruned |-> pruned, reply |-> Denial(current_count, limit)]

\* The reply is {allowed, remaining}; expire says whether PEXPIRE key window ran.
slidingWindowScriptN(z, now, window, limit, n, rands) ==
    LET clear_before == now - window
        pruned == ZREMRANGEBYSCORE(z, 0, clear_before)
        current_count == ZCARD(pruned)
    IN  IF Admits(current_count, n, limit)
        THEN [zset |-> AddEntries(pruned, now, n, rands), expire |-> TRUE,
              pruned |-> pruned, reply |-> <<1, limit - current_count - n>>]
        ELSE [zset |-> pruned, expire |-> FALSE,
              pruned |-> pruned, reply |-> Denial(current_count, limit)]

\* A status script that stores an entry for the peek it answers.
slidingWindowStatusScript_Consumes(z, now, window, limit) ==
    LET pruned == ZREMRANGEBYSCORE(z, 0, now - window)
        remaining == limit - ZCARD(pruned)
    IN  [zset |-> ZADD(pruned, now, Member(now, ZCARD(pruned), 0)), expire |-> FALSE,
         pruned |-> pruned,
         reply |-> <<ZCARD(pruned), IF remaining < 0 THEN 0 ELSE remaining>>]

\* A status script that ends with PEXPIRE key window, as the admit branch does.
slidingWindowStatusScript_Refresh(z, now, window, limit) ==
    LET pruned == ZREMRANGEBYSCORE(z, 0, now - window)
        remaining == limit - ZCARD(pruned)
    IN  [zset |-> pruned, expire |-> TRUE, pruned |-> pruned,
         reply |-> <<ZCARD(pruned), IF remaining < 0 THEN 0 ELSE remaining>>]

\* The reply is {current_count, remaining}.
slidingWindowStatusScript(z, now, window, limit) ==
    LET clear_before == now - window
        pruned == ZREMRANGEBYSCORE(z, 0, clear_before)
        current_count == ZCARD(pruned)
        remaining == limit - current_count
    IN  [zset |-> pruned, expire |-> FALSE, pruned |-> pruned,
         reply |-> <<current_count, IF remaining < 0 THEN 0 ELSE remaining>>]

\* ------------------------------------------------------------ store keyspace
\* A key whose expiry time has passed is gone for every command that reads it.
Expired(k) == ttl[k] # NoTTL /\ clock > ttl[k]

Visible(k) == IF Expired(k) THEN {} ELSE zset[k]

\* The TTL of key k after a script that left the set z and did or did not run
\* PEXPIRE key window: an empty sorted set is deleted with its TTL, and a
\* PEXPIRE with a timeout that is not positive deletes the key.
ZsetAfter(z, expire, window) == IF expire /\ window <= 0 THEN {} ELSE z

\* An expiry two milliseconds short of the window.
TTLAfter_Short(k, z, expire, window) ==
    IF ZsetAfter(z, expire, window) = {} THEN NoTTL
    ELSE IF expire THEN clock + window - 2
    ELSE ttl[k]

TTLAfter(k, z, expire, window) ==
    IF ZsetAfter(z, expire, window) = {} THEN NoTTL
    ELSE IF expire THEN clock + window
    ELSE ttl[k]

\* ------------------------------------------------------------------ history
\* last.seq is the value of ncalls that call was counted as
NoLast == [op |-> "none", store |-> "", key |-> "", n |-> 0, now |-> 0, seq |-> 0]

\* call.evals is the number of times the call invoked client.Eval, call.err
\* the error client.Eval returned ("" for none); call.streak is 2 for a Status
\* that returned a Result right after another Status on the same key did, 1
\* for any other Status that returned a Result, and 0 for every other call.
NoCall == [op |-> "none", n |-> 0, evals |-> 0, err |-> "", streak |-> 0]
Called(op, n, evals, err, streak) ==
    [op |-> op, n |-> n, evals |-> evals, err |-> err, streak |-> streak]

StatusStreak(k, delivered) ==
    IF ~delivered THEN 0
    ELSE IF /\ last.seq = ncalls /\ last.op = "Status" /\ last.key = k
            /\ Len(result.res) = 1
         THEN 2
         ELSE 1

\* tally[k].calls AllowN(k, 1) calls have run on key k since it was created
\* empty, .allowed of them were allowed, their timestamps and the times they
\* ran at lie in .lo .. .hi; calls = -1 once any other call has run on k.
Fresh == [calls |-> 0, allowed |-> 0, lo |-> 0, hi |-> 0]
Broken == [calls |-> -1, allowed |-> 0, lo |-> 0, hi |-> 0]

Min(a, b) == IF a <= b THEN a ELSE b
Max(a, b) == IF a >= b THEN a ELSE b

TallyAfter(t, n, now, reply, delivered) ==
    IF n = 1 /\ delivered /\ t.calls >= 0
    THEN [calls |-> t.calls + 1,
          allowed |-> t.allowed + (IF reply[1] = 1 THEN 1 ELSE 0),
          lo |-> IF t.calls = 0 THEN now ELSE Min(t.lo, now),
          hi |-> IF t.calls = 0 THEN clock ELSE Max(t.hi, clock)]
    ELSE Broken

\* ------------------------------------------------------------ gin.Context
\* The response of a request: status 0 and no header until the chain writes
\* them, aborted once a handler has aborted the chain, next once the next
\* handler of the chain has been run.
HeaderNames == {"X-RateLimit-Limit", "X-RateLimit-Remaining"}

NoResponse ==
    [status |-> 0, headers |-> [h \in HeaderNames |-> <<>>], body |-> "",
     aborted |-> FALSE, next |-> FALSE]

\* fmt.Sprint of an integer: its decimal digits, with a sign when negative
Digits == <<"0", "1", "2", "3", "4", "5", "6", "7", "8", "9">>

RECURSIVE Sprint(_)
Sprint(i) ==
    IF i < 0 THEN <<"-">> \o Sprint(-i)
    ELSE IF i < 10 THEN <<Digits[i + 1]>>
    ELSE Sprint(i \div 10) \o <<Digits[(i % 10) + 1]>>

\* ctx.Header(key, value)
Header(resp, key, value) == [resp EXCEPT !.headers[key] = value]

\* ctx.AbortWithStatusJSON(code, body): the chain stops here
AbortWithStatusJSON(resp, code, body) ==
    [resp EXCEPT !.status = code, !.body = body, !.aborted = TRUE]

\* ctx.Next(): the handlers after this one run
CtxNext(resp) == [resp EXCEPT !.next = TRUE]

\* --------------------------------------------------------------------- Init
TypeOK ==
    /\ clock \in 0..MaxTime
    /\ ncalls \in 0..MaxCalls
    /\ \A k \in Keys : ttl[k] = NoTTL \/ ttl[k] > 0
    /\ \A k \in Keys : \A e \in zset[k] : e.score = e.member[1]

Init ==
    /\ clock = 0
    /\ zset = [k \in Keys |-> {}]
    /\ ttl = [k \in Keys |-> NoTTL]
    /\ \E l \in Limits, w \in Windows : config = [s \in Stores |-> Config(l, w)]
    /\ result = Failed("")
    /\ ncalls = 0
    /\ last = NoLast
    /\ admitted = [k \in Keys |-> [t \in 0..MaxTime |-> 0]]
    /\ tally = [k \in Keys |-> Fresh]
    /\ orderly = TRUE
    /\ call = NoCall
    /\ response = NoResponse

\* ------------------------------------------------------------- store side
\* What the script of call c does to the sorted set it finds at its key.
Script(c) ==
    IF c.op = "AllowN"
    THEN slidingWindowScriptN(Visible(c.key), c.now, c.windowMS, c.limit, c.n, c.rands)
    ELSE slidingWindowStatusScript(Visible(c.key), c.now, c.windowMS, c.limit)

\* An EVAL whose script works on one fixed key whatever KEYS[1] it is sent.
Eval_FixedKey(s, c, out) ==
    LET k == "a"
    IN  /\ zset' = [zset EXCEPT ![k] = ZsetAfter(out.zset, out.expire, c.windowMS)]
        /\ ttl' = [ttl EXCEPT ![k] = TTLAfter(k, out.zset, out.expire, c.windowMS)]
        /\ last' = [op |-> c.op, store |-> s, key |-> c.key, n |-> c.n, now |-> c.now,
                    seq |-> ncalls + 1]
        /\ admitted' = IF c.op = "AllowN" /\ out.reply[1] = 1
                       THEN [admitted EXCEPT ![c.key][c.now] = @ + c.n]
                       ELSE admitted
        /\ orderly' = (/\ orderly
                       /\ c.now = clock
                       /\ ZCARD(out.zset) = ZCARD(out.pruned) + (IF out.expire THEN c.n ELSE 0))

\* client.Eval: the store runs the script of call c, sent by RedisStore s, as
\* one step; out is what the script does, out.reply the reply Eval returns.
Eval(s, c, out) ==
    LET k == c.key
    IN  /\ zset' = [zset EXCEPT ![k] = ZsetAfter(out.zset, out.expire, c.windowMS)]
        /\ ttl' = [ttl EXCEPT ![k] = TTLAfter(k, out.zset, out.expire, c.windowMS)]
        /\ last' = [op |-> c.op, store |-> s, key |-> k, n |-> c.n, now |-> c.now,
                    seq |-> ncalls + 1]
        /\ admitted' = IF c.op = "AllowN" /\ out.reply[1] = 1
                       THEN [admitted EXCEPT ![k][c.now] = @ + c.n]
                       ELSE admitted
        /\ orderly' = (/\ orderly
                       /\ c.now = clock
                       /\ ZCARD(out.zset) = ZCARD(out.pruned) + (IF out.expire THEN c.n ELSE 0))

\* client.Eval returns an error and the script never ran (store unreachable,
\* timed out, or the context was cancelled before the EVAL was sent).
EvalFails == UNCHANGED <<zset, ttl, last, admitted, tally, orderly>>

\* time.Now().UnixMilli(), read by the caller before the store runs the script:
\* the store's clock may have moved on by the time the script runs.
Nows == {t \in 0..clock : clock - t <= MaxLag}

\* ------------------------------------------------------------ caller side
\* The arguments RedisStore s sends with a call
Args(s, op, k, n, now, rands) ==
    [op |-> op, key |-> k, n |-> n, now |-> now,
     windowMS |-> Milliseconds(config[s].Window), limit |-> config[s].Limit,
     rands |-> rands]

\* A limiter that lets the request through when the store fails.
EvalError_FailOpen(e) == Returned(Result(TRUE, 0, 0, 0))

\* if err != nil { return nil, err }
EvalError(e) == Failed(e)

\* RedisStore.AllowN from the EVAL's reply on
AllowNReturn(s, reply) ==
    Returned(Result(reply[1] = 1, reply[2], config[s].Limit, config[s].Window))

\* A Status that reports Allowed whatever remains.
StatusReturn_AlwaysAllowed(s, reply) ==
    Returned(Result(TRUE, reply[2], config[s].Limit, config[s].Window))

\* RedisStore.Status from the EVAL's reply on
StatusReturn(s, reply) ==
    Returned(Result(reply[2] > 0, reply[2], config[s].Limit, config[s].Window))

\* RedisStore.AllowN with n > 0, timestamp now and discriminators rands, whose
\* script runs; delivered says whether the reply reaches the caller before its
\* context ends.
AllowNEval(s, k, n, now, rands, delivered) ==
    /\ n > 0
    /\ ncalls < MaxCalls
    /\ ncalls' = ncalls + 1
    /\ LET c == Args(s, "AllowN", k, n, now, rands) IN
          \E out \in {Script(c)} :
              /\ Eval(s, c, out)
              /\ result' = IF delivered THEN AllowNReturn(s, out.reply)
                           ELSE EvalError("context canceled")
              /\ call' = Called("AllowN", n, 1,
                                IF delivered THEN "" ELSE "context canceled", 0)
              /\ tally' = [tally EXCEPT ![k] =
                               TallyAfter(tally[k], n, now, out.reply, delivered)]
    /\ UNCHANGED <<clock, config>>

\* A test that lets n = 0 through.
InvalidN_Negative(n) == n < 0

\* if n <= 0
InvalidN(n) == n <= 0

\* RedisStore.AllowN
AllowN(s, k, n) ==
    IF InvalidN(n)
    THEN /\ ncalls < MaxCalls
         /\ ncalls' = ncalls + 1
         /\ result' = Failed("ratelimit: n must be greater than 0")
         /\ call' = Called("AllowN", n, 0, "", 0)
         /\ UNCHANGED <<clock, zset, ttl, config, last, admitted, tally, orderly>>
    ELSE \/ \E now \in Nows, rands \in [1..n -> RandVals], delivered \in BOOLEAN :
              AllowNEval(s, k, n, now, rands, delivered)
         \/ /\ ncalls < MaxCalls
            /\ ncalls' = ncalls + 1
            /\ EvalFails
            /\ result' = EvalError("store unavailable")
            /\ call' = Called("AllowN", n, 1, "store unavailable", 0)
            /\ UNCHANGED <<clock, config>>

\* RedisStore.Allow
Allow(s, k) == AllowN(s, k, 1)

\* RedisStore.Status with timestamp now, whose script runs
StatusEval(s, k, now, delivered) ==
    /\ ncalls < MaxCalls
    /\ ncalls' = ncalls + 1
    /\ LET c == Args(s, "Status", k, 0, now, <<>>) IN
          \E out \in {Script(c)} :
              /\ Eval(s, c, out)
              /\ result' = IF delivered THEN StatusReturn(s, out.reply)
                           ELSE EvalError("context canceled")
              /\ call' = Called("Status", 0, 1,
                                IF delivered THEN "" ELSE "context canceled",
                                StatusStreak(k, delivered))
    /\ tally' = [tally EXCEPT ![k] = Broken]
    /\ UNCHANGED <<clock, config>>

\* RedisStore.Status
Status(s, k) ==
    \/ \E now \in Nows, delivered \in BOOLEAN : StatusEval(s, k, now, delivered)
    \/ /\ ncalls < MaxCalls
       /\ ncalls' = ncalls + 1
       /\ EvalFails
       /\ result' = EvalError("store unavailable")
       /\ call' = Called("Status", 0, 1, "store unavailable", 0)
       /\ UNCHANGED <<clock, config>>

\* ------------------------------------------------- replies of any shape
\* What client.Eval may hand back with a nil error: a value that is or is not
\* a []interface{}, with elements that are or are not int64.
Elem(int, v) == [int |-> int, v |-> v]
Raw(list, items) == [list |-> list, items |-> items]

\* Not a list, a list with no or one element, and lists with an element that
\* is not an integer
BadReplies ==
    { Raw(FALSE, <<>>), Raw(TRUE, <<>>), Raw(TRUE, <<Elem(TRUE, 1)>>),
      Raw(TRUE, <<Elem(FALSE, 0), Elem(TRUE, 1)>>),
      Raw(TRUE, <<Elem(TRUE, 1), Elem(FALSE, 0)>>) }

\* The goroutine panics: the call returns neither a Result nor an error.
Panicked(msg) == [res |-> <<>>, err |-> "", panic |-> msg]

\* res := raw.([]interface{}); allowed := res[0].(int64) == 1;
\* remaining := res[1].(int64)
AllowNDecode(s, raw) ==
    IF ~raw.list THEN Panicked("interface conversion")
    ELSE IF Len(raw.items) < 1 THEN Panicked("index out of range")
    ELSE IF ~raw.items[1].int THEN Panicked("interface conversion")
    ELSE IF Len(raw.items) < 2 THEN Panicked("index out of range")
    ELSE IF ~raw.items[2].int THEN Panicked("interface conversion")
    ELSE AllowNReturn(s, <<raw.items[1].v, raw.items[2].v>>)

\* res := raw.([]interface{}); remaining := res[1].(int64)
StatusDecode(s, raw) ==
    IF ~raw.list THEN Panicked("interface conversion")
    ELSE IF Len(raw.items) < 2 THEN Panicked("index out of range")
    ELSE IF ~raw.items[2].int THEN Panicked("interface conversion")
    ELSE StatusReturn(s, <<raw.items[1].v, raw.items[2].v>>)

\* RedisStore.AllowN, when the script runs and client.Eval hands back raw
AllowNBadReply(s, k, n, raw) ==
    /\ ~InvalidN(n)
    /\ ncalls < MaxCalls
    /\ ncalls' = ncalls + 1
    /\ \E now \in Nows, rands \in [1..n -> RandVals] :
          LET c == Args(s, "AllowN", k, n, now, rands) IN
             \E out \in {Script(c)} : Eval(s, c, out)
    /\ result' = AllowNDecode(s, raw)
    /\ call' = Called("AllowN", n, 1, "", 0)
    /\ tally' = [tally EXCEPT ![k] = Broken]
    /\ UNCHANGED <<clock, config>>

\* RedisStore.Status, when the script runs and client.Eval hands back raw
StatusBadReply(s, k, raw) ==
    /\ ncalls < MaxCalls
    /\ ncalls' = ncalls + 1
    /\ \E now \in Nows :
          LET c == Args(s, "Status", k, 0, now, <<>>) IN
             \E out \in {Script(c)} : Eval(s, c, out)
    /\ result' = StatusDecode(s, raw)
    /\ call' = Called("Status", 0, 1, "", 0)
    /\ tally' = [tally EXCEPT ![k] = Broken]
    /\ UNCHANGED <<clock, config>>

\* ------------------------------------------------------------ environment
\* The store deletes a key whose expiry time has passed.
Expire(k) ==
    /\ Expired(k)
    /\ zset' = [zset EXCEPT ![k] = {}]
    /\ ttl' = [ttl EXCEPT ![k] = NoTTL]
    /\ tally' = [tally EXCEPT ![k] = Broken]
    /\ UNCHANGED <<clock, config, result, ncalls, last, admitted, orderly, call,
                   response>>

\* One millisecond passes.
Tick ==
    /\ clock < MaxTime
    /\ clock' = clock + 1
    /\ UNCHANGED <<zset, ttl, config, result, ncalls, last, admitted, tally, orderly,
                   call, response>>

\* The callers of Spec call the RedisStore directly: no response is written.
Next ==
    \/ \E s \in Stores, k \in SpecKeys : Allow(s, k) /\ UNCHANGED response
    \/ \E s \in Stores, k \in SpecKeys, n \in Ns : AllowN(s, k, n) /\ UNCHANGED response
    \/ \E s \in Stores, k \in SpecKeys : Status(s, k) /\ UNCHANGED response
    \/ \E k \in Keys : Expire(k)
    \/ Tick

Spec == Init /\ [][Next]_vars

\* Time passes, and the store deletes every key whose expiry time has passed
\* (its expiry cycle runs ten times a second, and a command on an expired key
\* deletes it first).
NextLive ==
    \/ \E s \in Stores, k \in SpecKeys, n \in {1, 2} : AllowN(s, k, n) /\ UNCHANGED response
    \/ \E s \in Stores, k \in SpecKeys : Status(s, k) /\ UNCHANGED response
    \/ \E k \in Keys : Expire(k)
    \/ Tick

SpecLive ==
    Init /\ [][NextLive]_vars /\ WF_vars(Tick) /\ \A k \in Keys : WF_vars(Expire(k))

\* ------------------------------------------- two limiters on the same store
\* Two RedisStore values built on one client with different WithLimit options
\* (two services, or two versions of one service) and used on the same keys.
Instances == {"s1", "s2"}

InitShared ==
    /\ clock = 0
    /\ zset = [k \in Keys |-> {}]
    /\ ttl = [k \in Keys |-> NoTTL]
    /\ \E w \in Windows : config = [s \in Instances |->
                                       Config(IF s = "s1" THEN 2 ELSE 1, w)]
    /\ result = Failed("")
    /\ ncalls = 0
    /\ last = NoLast
    /\ admitted = [k \in Keys |-> [t \in 0..MaxTime |-> 0]]
    /\ tally = [k \in Keys |-> Fresh]
    /\ orderly = TRUE
    /\ call = NoCall
    /\ response = NoResponse

NextShared ==
    \/ \E s \in Instances, k \in SpecKeys, n \in Ns : AllowN(s, k, n) /\ UNCHANGED response
    \/ \E s \in Instances, k \in SpecKeys : Status(s, k) /\ UNCHANGED response
    \/ \E k \in Keys : Expire(k)
    \/ Tick

SpecShared == InitShared /\ [][NextShared]_vars

\* ------------------------------------ a store that may answer in any shape
NextProtocol ==
    \/ Next
    \/ \E s \in Stores, k \in SpecKeys, raw \in BadReplies :
          AllowNBadReply(s, k, 1, raw) /\ UNCHANGED response
    \/ \E s \in Stores, k \in SpecKeys, raw \in BadReplies :
          StatusBadReply(s, k, raw) /\ UNCHANGED response

SpecProtocol == Init /\ [][NextProtocol]_vars

\* ------------------------------------------------ callers on different keys
\* The callers of one limiter use both keys, in any order; their calls reach
\* the store within the millisecond they were stamped in.
NextKeyed ==
    \/ \E s \in Stores, k \in Keys : Allow(s, k) /\ orderly' /\ UNCHANGED response
    \/ \E s \in Stores, k \in Keys : Status(s, k) /\ orderly' /\ UNCHANGED response
    \/ \E k \in Keys : Expire(k)
    \/ Tick

SpecKeyed == Init /\ [][NextKeyed]_vars

\* ------------------------------------------------------- gin middleware
\* A middleware that lets the request through when the limiter fails.
OnError_FailOpen(resp) == CtxNext(resp)

\* if err != nil { ctx.AbortWithStatusJSON(http.StatusInternalServerError, ...) }
OnError(resp) == AbortWithStatusJSON(resp, 500, "rate limiter error")

\* The handler RateLimiter(limiter, keyFunc) returns, run for a request for
\* which keyFunc returns k, with limiter the RedisStore s
RateLimiter(s, k) ==
    /\ Allow(s, k)
    /\ LET err == result'.err
           ctx == NoResponse
       IN  response' =
             IF err # "" THEN OnError(ctx)
             ELSE LET res == result'.res[1]
                      limit == Header(ctx, "X-RateLimit-Limit", Sprint(res.Limit))
                      remaining == Header(limit, "X-RateLimit-Remaining",
                                          Sprint(res.Remaining))
                  IN  IF ~res.Allowed
                      THEN AbortWithStatusJSON(remaining, 429,
                                               "too many requests, try again later")
                      ELSE CtxNext(remaining)

\* Requests come in through the middleware, while other callers use AllowN.
NextHTTP ==
    \/ \E s \in Stores, k \in SpecKeys : RateLimiter(s, k)
    \/ \E s \in Stores, k \in SpecKeys, n \in {2} : AllowN(s, k, n) /\ UNCHANGED response
    \/ \E k \in Keys : Expire(k)
    \/ Tick

SpecHTTP == Init /\ [][NextHTTP]_vars

\* ------------------------------------- windows that are not whole milliseconds
\* WithWindow(500 * time.Microsecond) and WithWindow(1500 * time.Microsecond)
SubMsWindows == {NsPerMs \div 2, (3 * NsPerMs) \div 2}

InitSubMs ==
    /\ clock = 0
    /\ zset = [k \in Keys |-> {}]
    /\ ttl = [k \in Keys |-> NoTTL]
    /\ \E l \in Limits, w \in SubMsWindows : config = [s \in Stores |-> Config(l, w)]
    /\ result = Failed("")
    /\ ncalls = 0
    /\ last = NoLast
    /\ admitted = [k \in Keys |-> [t \in 0..MaxTime |-> 0]]
    /\ tally = [k \in Keys |-> Fresh]
    /\ orderly = TRUE
    /\ call = NoCall
    /\ response = NoResponse

SpecSubMs == InitSubMs /\ [][Next]_vars

\* ================================================================== claims
\* What the claims speak of, read off the state and the history.
LimitOf(s) == config[s].Limit
WindowMSOf(s) == Milliseconds(config[s].Window)

\* An entry is live at now iff its timestamp >= now - window.
Live(z, now, w) == {e \in z : e.score >= now - w}

\* The entries left for key k after pruning at now
Pruned(k, now, w) == ZREMRANGEBYSCORE(Visible(k), 0, now - w)

\* This step is a call whose script ran: last' holds its arguments.
ScriptRan == ncalls' = ncalls + 1 /\ last'.seq = ncalls'
AllowNRan == ScriptRan /\ last'.op = "AllowN"

\* The last call made is one whose script ran, and it returned a Result.
GotResult == last.seq = ncalls /\ last.seq > 0 /\ Len(result.res) = 1
TheResult == result.res[1]

\* The units admitted for key k with a timestamp in the closed span t1 .. t2
RECURSIVE AdmittedIn(_, _, _)
AdmittedIn(k, t1, t2) ==
    IF t1 > t2 THEN 0 ELSE admitted[k][t1] + AdmittedIn(k, t1 + 1, t2)

\* C1: whenever an AllowN (or Allow) call's script has run, the entries stored
\* for its key that are live at the call's timestamp number at most Limit, and
\* a denied call has added no entry.
C1_LiveWithinLimit ==
    [][AllowNRan =>
        LET k == last'.key
            s == last'.store
        IN  /\ Cardinality(Live(zset'[k], last'.now, WindowMSOf(s))) <= LimitOf(s)
            /\ admitted' = admitted => zset'[k] \subseteq zset[k]]_vars

\* A denied AllowN has run on a key that holds Limit entries.
C1_Witness ==
    /\ GotResult /\ last.op = "AllowN" /\ ~TheResult.Allowed
    /\ Cardinality(zset[last.key]) = LimitOf(last.store)
    /\ Cardinality(Live(zset[last.key], last.now, WindowMSOf(last.store)))
          = LimitOf(last.store)

\* C2: when G > Limit AllowN(k, 1) calls have run against a fresh key, all of
\* them inside one window, exactly Limit of them were allowed and G - Limit
\* were denied.
C2_ExactlyLimitAllowed ==
    \A s \in Stores, k \in Keys :
        (tally[k].calls > LimitOf(s) /\ tally[k].hi - tally[k].lo < WindowMSOf(s))
            => /\ tally[k].allowed = LimitOf(s)
               /\ tally[k].calls - tally[k].allowed = tally[k].calls - LimitOf(s)

\* C5: an admitted AllowN(k, n) leaves the pruned count plus n entries stored:
\* none of its entries replaces or merges with an entry already there.
C5_AdmittedEntriesDistinct ==
    [][(AllowNRan /\ admitted' # admitted) =>
        LET k == last'.key
            s == last'.store
        IN  Cardinality(zset'[k])
              = Cardinality(Pruned(k, last'.now, WindowMSOf(s))) + last'.n]_vars

\* C6: the units admitted for a key with timestamps in a closed span t1 .. t2
\* no longer than Window number at most Limit (stated for the calls that reach
\* the store in the order of their timestamps, with discriminators that differ).
C6_NoBurstInAnyWindow ==
    \A s \in Stores, k \in Keys, t1 \in 0..MaxTime, t2 \in 0..MaxTime :
        (orderly /\ t1 <= t2 /\ t2 - t1 <= WindowMSOf(s))
            => AdmittedIn(k, t1, t2) <= LimitOf(s)

\* C7: of the Allow calls made one after the other on a fresh key with no time
\* elapsed, the j-th is allowed with remaining Limit - j for j = 1 .. Limit,
\* and call Limit + 1 is denied.
C7_ConsecutiveAllows ==
    \A k \in Keys :
        (GotResult /\ last.key = k /\ tally[k].calls >= 1 /\ tally[k].lo = tally[k].hi)
            => LET j == tally[k].calls
                   l == LimitOf(last.store)
               IN  /\ j <= l => TheResult.Allowed /\ TheResult.Remaining = l - j
                   /\ j = l + 1 => ~TheResult.Allowed

\* The entries AllowN(k, n) stores when it is admitted at now
EntriesOf(now, n, rands) ==
    {[score |-> now, member |-> Member(now, i, rands[i + 1])] : i \in 0..(n - 1)}

\* C4: a step stores either every one of the n entries of an admitted AllowN
\* call and no other entry, or no entry at all; this holds as well for the
\* call whose reply is lost to a cancellation, for the call that fails and
\* for n <= 0.
C4_AllOrNothing ==
    [][\A k \in Keys :
          LET new == zset'[k] \ zset[k]
          IN  IF AllowNRan /\ last'.key = k /\ admitted' # admitted
              THEN \E rands \in [1..last'.n -> RandVals] :
                      /\ EntriesOf(last'.now, last'.n, rands) \subseteq zset'[k]
                      /\ new \subseteq EntriesOf(last'.now, last'.n, rands)
              ELSE new = {}]_vars

\* A cancelled AllowN(k, 2) has stored both of its entries.
C4_Witness ==
    /\ last.seq = ncalls /\ last.op = "AllowN" /\ last.n = 2
    /\ result.err = "context canceled"
    /\ Cardinality({e \in zset[last.key] : e.score = last.now}) = 2

\* C8: AllowN(k, n) with n >= 1 admits iff current + n <= Limit, current
\* being the number of entries left after pruning at now, and the admitted
\* call returns allowed = true with remaining = Limit - current - n.
C8_AdmitIffFits ==
    [][AllowNRan =>
        LET k == last'.key
            s == last'.store
            current == Cardinality(Pruned(k, last'.now, WindowMSOf(s)))
            fits == current + last'.n <= LimitOf(s)
        IN  /\ (admitted' # admitted) <=> fits
            /\ Len(result'.res) = 1 =>
                  /\ result'.res[1].Allowed <=> fits
                  /\ fits => result'.res[1].Remaining
                               = LimitOf(s) - current - last'.n]_vars

\* AllowN(k, 2) was admitted and used up the limit.
C8_Witness ==
    /\ GotResult /\ last.op = "AllowN" /\ last.n = 2
    /\ TheResult.Allowed /\ TheResult.Remaining = 0
    /\ Cardinality(zset[last.key]) = LimitOf(last.store)

\* The set a command finds at key k after this step
VisibleNext(k) == IF ttl'[k] # NoTTL /\ clock' > ttl'[k] THEN {} ELSE zset'[k]

\* The remaining a Status call at now reports on the set z
RemainingAt(z, now, s) ==
    slidingWindowStatusScript(z, now, WindowMSOf(s), LimitOf(s)).reply[2]

\* C9: a denied AllowN(k, n) leaves the entries of the key and its expiry as
\* they are after pruning, returns remaining = Limit - current, and a Status
\* at the same time reports that same remaining before and after the call.
C9_DeniedInFull ==
    [][(AllowNRan /\ admitted' = admitted) =>
        LET k == last'.key
            s == last'.store
            pruned == Pruned(k, last'.now, WindowMSOf(s))
            current == Cardinality(pruned)
        IN  /\ zset'[k] = pruned
            /\ ttl'[k] = IF pruned = {} THEN NoTTL ELSE ttl[k]
            /\ RemainingAt(VisibleNext(k), last'.now, s)
                  = RemainingAt(Visible(k), last'.now, s)
            /\ Len(result'.res) = 1 =>
                  /\ ~result'.res[1].Allowed
                  /\ result'.res[1].Remaining = LimitOf(s) - current
                  /\ result'.res[1].Remaining
                        = RemainingAt(Visible(k), last'.now, s)]_vars

\* With Limit 2 and one entry stored, AllowN(k, 2) was denied with remaining 1.
C9_Witness ==
    /\ GotResult /\ last.op = "AllowN" /\ last.n = 2
    /\ ~TheResult.Allowed /\ TheResult.Remaining = 1
    /\ Cardinality(zset[last.key]) = 1

\* C10: AllowN(k, n) with n > Limit is denied whatever the key holds, and
\* stores no entry.
C10_OverLimitDenied ==
    [][(AllowNRan /\ last'.n > LimitOf(last'.store)) =>
        /\ admitted' = admitted
        /\ zset'[last'.key] \subseteq zset[last'.key]
        /\ Len(result'.res) = 1 => ~result'.res[1].Allowed]_vars

\* AllowN(k, n) with n > Limit was denied on a key that holds no entry.
C10_Witness ==
    /\ GotResult /\ last.op = "AllowN" /\ last.n > LimitOf(last.store)
    /\ ~TheResult.Allowed /\ TheResult.Remaining = LimitOf(last.store)
    /\ zset[last.key] = {}

\* This step is a call, made with the arguments call' records.
CallMade == ncalls' = ncalls + 1

\* C11: AllowN(k, n) with n <= 0 returns an error and no Result, sends no
\* EVAL to the store, and leaves the entries and the expiry of every key as
\* they are: it does not prune either.
C11_InvalidN ==
    [][(CallMade /\ call'.op = "AllowN" /\ call'.n <= 0) =>
        /\ result'.err # "" /\ result'.res = <<>>
        /\ call'.evals = 0
        /\ zset' = zset /\ ttl' = ttl
        /\ last' = last /\ admitted' = admitted]_vars

\* AllowN(k, n) with n <= 0 has returned its error on a key that still holds
\* an entry a pruning at the current time would remove.
C11_Witness ==
    /\ call.op = "AllowN" /\ call.n <= 0 /\ call.evals = 0
    /\ result.err = "ratelimit: n must be greater than 0"
    /\ \E k \in Keys, s \in Stores :
          \E e \in zset[k] : e.score <= clock - WindowMSOf(s)

\* This step is a Status call whose script ran.
StatusRan == ScriptRan /\ last'.op = "Status"

StatusReturned(k) == GotResult /\ last.op = "Status" /\ last.key = k

\* This step is a Status on key k that returns a Result.
StatusReturns(k) == StatusRan /\ last'.key = k /\ Len(result'.res) = 1

\* C13 as stated: a Status that follows a Status on the same key, with no
\* other call in between, returns the same remaining.
C13_StatusSameRemaining ==
    [][\A k \in Keys :
          (StatusReturned(k) /\ StatusReturns(k))
              => result'.res[1].Remaining = TheResult.Remaining]_vars

\* C13 amended: a Status that follows a Status on the same key, with no other
\* call in between, never returns less remaining, and returns the same
\* remaining when no time has passed since (it runs at the time that both
\* carry as their timestamp); on a key for which nothing was ever admitted
\* every Status returns remaining = Limit, allowed = true.
C13_StatusNeverReduces ==
    [][\A k \in Keys :
          /\ (StatusReturned(k) /\ StatusReturns(k))
                => /\ result'.res[1].Remaining >= TheResult.Remaining
                   /\ (last'.now = last.now /\ last'.now = clock)
                        => result'.res[1].Remaining = TheResult.Remaining
          /\ (StatusReturns(k) /\ AdmittedIn(k, 0, MaxTime) = 0)
                => /\ result'.res[1].Remaining = LimitOf(last'.store)
                   /\ result'.res[1].Allowed]_vars

\* Two Status calls in a row have returned on a key that holds an entry, the
\* second, run at the time of its timestamp, with no remaining left.
C13_Witness ==
    /\ GotResult /\ last.op = "Status" /\ call.streak = 2 /\ last.now = clock
    /\ zset[last.key] # {} /\ TheResult.Remaining = 0

C18_RemainingNotNegative ==
    Len(result.res) = 1 => TheResult.Remaining >= 0

\* What AllowN(k, n) through limiter s would do next, with timestamp now and
\* discriminators rands, on the set z found at its key
WouldAllowN(s, z, now, n, rands) ==
    slidingWindowScriptN(z, now, WindowMSOf(s), LimitOf(s), n, rands)

\* C15: an AllowN call that runs after a Status call returns the same allowed
\* and remaining and leaves the same live entries as it would have without
\* the Status call, for every timestamp it may carry.
C15_StatusLeavesAdmitAlone ==
    [][StatusRan =>
        LET k == last'.key
            s == last'.store
        IN  \A now \in Nows, n \in {1, 2} : \A rands \in [1..n -> RandVals] :
                LET without == WouldAllowN(s, Visible(k), now, n, rands)
                    with == WouldAllowN(s, VisibleNext(k), now, n, rands)
                IN  /\ with.reply = without.reply
                    /\ Live(with.zset, now, WindowMSOf(s))
                          = Live(without.zset, now, WindowMSOf(s))]_vars

\* Every unit admitted so far for key k carries a timestamp at least w before now.
AllAdmittedBy(k, now, w) ==
    \A t \in 0..MaxTime : admitted[k][t] > 0 => t + w <= now

\* C16: an Allow whose timestamp is at least Window, or exactly Window, after
\* the timestamp of the last unit admitted for its key is allowed, with
\* remaining = Limit - 1, however full the key was.
C16_AllowedAfterWindow ==
    [][(AllowNRan /\ last'.n = 1
          /\ AdmittedIn(last'.key, 0, MaxTime) > 0
          /\ AllAdmittedBy(last'.key, last'.now, WindowMSOf(last'.store))) =>
        /\ admitted' # admitted
        /\ Len(result'.res) = 1 =>
              /\ result'.res[1].Allowed
              /\ result'.res[1].Remaining = LimitOf(last'.store) - 1]_vars

\* With Limit 2 and Window 2 ms the key was exhausted at time 0, and the Allow
\* at time 2 has returned (true, 1).
C16_Witness ==
    /\ GotResult /\ last.op = "AllowN" /\ last.n = 1 /\ last.now = 2
    /\ LimitOf(last.store) = 2 /\ WindowMSOf(last.store) = 2
    /\ admitted[last.key][0] = 2 /\ admitted[last.key][1] = 0
    /\ admitted[last.key][2] = 1
    /\ TheResult.Allowed /\ TheResult.Remaining = 1
    /\ Cardinality(zset[last.key]) = 1

\* C17: an entry with a timestamp strictly less than now - Window counts
\* neither toward the decision of AllowN at now nor toward the remaining that
\* AllowN or Status returns at now: the call decides and returns what it
\* would on the entries that are live at now alone.
C17_OldEntriesNeverCount ==
    [][ScriptRan =>
        LET k == last'.key
            s == last'.store
            now == last'.now
            live == Live(Visible(k), now, WindowMSOf(s))
            onLive == IF last'.op = "AllowN"
                      THEN WouldAllowN(s, live, now, last'.n, [i \in 1..last'.n |-> 0]).reply
                      ELSE <<0, RemainingAt(live, now, s)>>
        IN  /\ last'.op = "AllowN" => ((admitted' # admitted) <=> (onLive[1] = 1))
            /\ Len(result'.res) = 1 => result'.res[1].Remaining = onLive[2]
            /\ \A e \in zset'[k] : e.score >= now - WindowMSOf(s)]_vars

\* The first of two calls stored Limit entries stamped 0 at time 1, so that
\* the key lives until time 3; the second, an AllowN at time 3, found them,
\* older than 3 less Window, and has been admitted as on an empty key.
C17_Witness ==
    /\ ncalls = 2 /\ GotResult /\ last.op = "AllowN" /\ last.now = 3 /\ clock = 3
    /\ ~orderly /\ WindowMSOf(last.store) = 2
    /\ admitted[last.key][0] = LimitOf(last.store)
    /\ TheResult.Allowed /\ TheResult.Remaining = LimitOf(last.store) - last.n

\* C19: when client.Eval returns an error, Allow, AllowN and Status return
\* that error and no Result, having called client.Eval once; when the script
\* never ran, nothing is stored or admitted.
C19_StoreErrorReturned ==
    [][CallMade =>
        /\ call'.evals <= 1
        /\ call'.err # "" =>
              /\ call'.evals = 1
              /\ result'.res = <<>> /\ result'.err = call'.err
        /\ call'.err = "store unavailable" =>
              zset' = zset /\ ttl' = ttl /\ admitted' = admitted]_vars

\* An Allow or AllowN on a key that holds an entry has returned the error of
\* a store that could not be reached.
C19_Witness ==
    /\ call.op = "AllowN" /\ call.n > 0 /\ call.evals = 1
    /\ call.err = "store unavailable"
    /\ result.res = <<>> /\ result.err = "store unavailable"
    /\ \E k \in Keys : zset[k] # {}

\* C20: when client.Eval hands back, with no error, a reply that is not a
\* list of two integers, AllowN and Status return an error and no Result:
\* no call ever panics.
C20_NoPanic ==
    /\ "panic" \notin DOMAIN result
    /\ (call.evals = 1 /\ call.err = "" /\ result.res = <<>>) => result.err # ""

\* What the script of the call that runs in this step returns on the set z
OwnReply(z) ==
    IF last'.op = "AllowN"
    THEN WouldAllowN(last'.store, z, last'.now, last'.n, [i \in 1..last'.n |-> 0]).reply
    ELSE <<0, RemainingAt(z, last'.now, last'.store)>>

\* C21: a call changes the entries and the expiry of no key but its own, and
\* what it returns is what its script returns on the entries of its own key
\* alone, whatever the other keys hold and whatever calls ran on them.
C21_KeysIndependent ==
    [][CallMade =>
        /\ \A k2 \in Keys :
              \/ ScriptRan /\ last'.key = k2
              \/ zset'[k2] = zset[k2] /\ ttl'[k2] = ttl[k2]
        /\ (ScriptRan /\ Len(result'.res) = 1) =>
              LET own == OwnReply(Visible(last'.key))
              IN  /\ result'.res[1].Remaining = own[2]
                  /\ last'.op = "AllowN" => (result'.res[1].Allowed <=> own[1] = 1)
                  /\ last'.op = "Status" => (result'.res[1].Allowed <=> own[2] > 0)]_vars

\* While key a holds Limit entries, an Allow on key b has been allowed with
\* remaining = Limit - 1, and the entries of key a are still there.
C21_Witness ==
    /\ GotResult /\ last.op = "AllowN" /\ last.key = "b" /\ last.n = 1
    /\ TheResult.Allowed /\ TheResult.Remaining = LimitOf(last.store) - 1
    /\ Cardinality(zset["a"]) = LimitOf(last.store) /\ ttl["a"] # NoTTL
    /\ Cardinality(zset["b"]) = 1

\* strconv.Atoi of a header value; -1 stands for a value that is no number
DigitOf(c) == CHOOSE d \in 0..9 : Digits[d + 1] = c

RECURSIVE Atoi(_)
Atoi(v) ==
    IF v = <<>> \/ \E i \in 1..Len(v) : \A d \in 1..10 : Digits[d] # v[i] THEN -1
    ELSE IF Len(v) = 1 THEN DigitOf(v[1])
    ELSE 10 * Atoi(SubSeq(v, 1, Len(v) - 1)) + DigitOf(v[Len(v)])

\* C23: the middleware runs the next handler iff Allow returned no error and
\* Allowed = true; it aborts with 429 when Allowed = false and with 500 when
\* Allow returned an error; whenever Allow returned no error the two headers
\* carry the Limit and the Remaining of the Result.  (The requests are the
\* calls with n = 1; the other callers pass n = 2.)
C23_Middleware ==
    [][(CallMade /\ call'.op = "AllowN" /\ call'.n = 1) =>
        LET ok == result'.err = "" /\ Len(result'.res) = 1
        IN  /\ response'.next <=> (ok /\ result'.res[1].Allowed)
            /\ response'.next => ~response'.aborted /\ response'.status = 0
            /\ (ok /\ ~result'.res[1].Allowed) =>
                  response'.aborted /\ response'.status = 429
            /\ ~ok => response'.aborted /\ response'.status = 500
            /\ ok => /\ Atoi(response'.headers["X-RateLimit-Limit"])
                           = result'.res[1].Limit
                     /\ Atoi(response'.headers["X-RateLimit-Remaining"])
                           = result'.res[1].Remaining]_vars

\* A request was answered 429 with the headers Limit 2 and Remaining 0, after
\* one that was passed on and one that was answered 500.
C23_Witness ==
    /\ response.status = 429 /\ response.aborted /\ ~response.next
    /\ response.headers["X-RateLimit-Limit"] = <<"2">>
    /\ response.headers["X-RateLimit-Remaining"] = <<"0">>
    /\ GotResult /\ ~TheResult.Allowed

\* C24: every Result that Status returns has Allowed = true, whatever
\* remains of the quota.
C24_StatusAlwaysAllowed ==
    [][\A k \in Keys : StatusReturns(k) => result'.res[1].Allowed]_vars

\* C25: a prune at now removes exactly the entries with a timestamp below
\* now - Window: the entry stamped now - Window stays stored and is counted
\* by AllowN and by Status.
C25_BoundaryEntryLive ==
    [][ScriptRan =>
        LET k == last'.key
            s == last'.store
            now == last'.now
            live == Live(Visible(k), now, WindowMSOf(s))
        IN  /\ live \subseteq zset'[k]
            /\ \A e \in Visible(k) \ zset'[k] : e.score < now - WindowMSOf(s)
            /\ Len(result'.res) = 1 =>
                  result'.res[1].Remaining
                     = IF last'.op = "AllowN" /\ result'.res[1].Allowed
                       THEN LimitOf(s) - Cardinality(live) - last'.n
                       ELSE Max(LimitOf(s) - Cardinality(live), 0)]_vars

\* C26: a key that holds entries has an expiry, set by the admitted AllowN to
\* Window after the time it ran and left as it is by every other call (until
\* the key is empty), so it is due no later than Window from now; and a key
\* with an expiry due at t is in the end removed with all its entries, unless
\* an admitted call moves the expiry past t first.
C26_IdleExpiry ==
    /\ [][\A k \in Keys :
             /\ zset'[k] # {} =>
                   /\ ttl'[k] # NoTTL
                   /\ \A s \in Stores : ttl'[k] <= clock' + WindowMSOf(s)
             /\ IF AllowNRan /\ last'.key = k /\ admitted' # admitted
                THEN ttl'[k] = clock + WindowMSOf(last'.store) /\ zset'[k] # {}
                ELSE ttl'[k] = ttl[k] \/ (ttl'[k] = NoTTL /\ zset'[k] = {})]_vars
    /\ \A k \in SpecKeys, t \in 0..(MaxTime - 1) :
          (zset[k] # {} /\ ttl[k] = t) ~> (zset[k] = {} \/ ttl[k] > t)

\* The last call made was admitted, and the store has since removed its key
\* with the entries: no call pruned them.
C26_Witness ==
    /\ last.seq = ncalls /\ last.op = "AllowN" /\ admitted[last.key][last.now] > 0
    /\ zset[last.key] = {} /\ ttl[last.key] = NoTTL /\ clock = MaxTime

\* C27: the entries of a key whose expiry has passed are all entries that a
\* prune at that moment removes; and a call stamped after the expiry was due
\* returns what it would return had the store kept the key, and none of the
\* entries the store reclaims would have outlived the call's own prune.
C27_ReclaimOnlyDead ==
    /\ [](\A k \in Keys, s \in Stores :
              Expired(k) => ZREMRANGEBYSCORE(zset[k], 0, clock - WindowMSOf(s)) = {})
    /\ [][(ScriptRan /\ ttl[last'.key] # NoTTL /\ last'.now > ttl[last'.key]) =>
            LET k == last'.key
                kept == OwnReply(zset[k])
            IN  /\ Visible(k) = {}
                /\ kept = OwnReply(Visible(k))
                /\ ZREMRANGEBYSCORE(zset[k], 0, last'.now - WindowMSOf(last'.store)) = {}
                /\ Len(result'.res) = 1 => result'.res[1].Remaining = kept[2]
                /\ last'.op = "AllowN" => ((admitted' # admitted) <=> kept[1] = 1)]_vars

\* The first call stored Limit entries at time 0, the store reclaimed the key
\* once time 2 had passed, and the second call, an AllowN at time 3, has been
\* admitted as on a new key.
C27_Witness ==
    /\ ncalls = 2 /\ GotResult /\ last.op = "AllowN" /\ last.now = 3 /\ clock = 3
    /\ orderly /\ WindowMSOf(last.store) = 2
    /\ admitted[last.key][0] = LimitOf(last.store)
    /\ TheResult.Allowed /\ TheResult.Remaining = LimitOf(last.store) - last.n
    /\ ttl[last.key] = 5

\* C28: for every Window > 0 the window a call passes to the store is
\* positive, the entries of an admitted call are stored when it returns, and
\* the units admitted with one timestamp (by calls that reach the store on
\* time, with discriminators that differ) number at most Limit.
C28_WindowPositive ==
    [][(ScriptRan /\ config[last'.store].Window > 0) =>
        LET k == last'.key
            s == last'.store
        IN  /\ WindowMSOf(s) > 0
            /\ (last'.op = "AllowN" /\ admitted' # admitted) =>
                  Cardinality({e \in zset'[k] : e.score = last'.now}) >= last'.n
            /\ orderly' => admitted'[k][last'.now] <= LimitOf(s)]_vars

====
